---- MODULE Spec2Model ----
(***************************************************************************)
(* Model of the LRU cache of package cache (lru.go).                       *)
(*                                                                         *)
(* The engine is the struct LRU: a container/list of elements (items), a   *)
(* map from key to list element (lookup), capacity and count.  List        *)
(* elements are heap objects with an identity; each carries its *LRUItem   *)
(* (Key, Value, Count) and the back pointer to its list (e.list), which    *)
(* container/list clears on Remove and tests in Remove and MoveToFront.    *)
(***************************************************************************)
EXTENDS Integers, Sequences, FiniteSets, TLC

\* ------------------------------------------------------------- bounds
NumKeys  == 3       \* keys are 1..NumKeys
MaxCount == 3       \* once lru.count reaches this, only Purge goes on
IntBits  == 8       \* width of the scaled-down machine integer (Go int)

\* ---------------------------------------------------------- constants
defaultCAPACITY == 16

\* Go's nil for keys, values and element pointers; keys, values and
\* element addresses are positive.
Nil == 0
NoError == "nil"
ELRUINVALTYPE == "cache(lru): invalid item type."
NoFresh == [ok |-> FALSE, sets |-> <<>>]

Keys    == 1..NumKeys
\* Values are opaque to the engine, which stores and returns them and
\* never looks inside: two tell a replaced value from a kept one.
Values  == {1, 2}
ElemIds == 1..(NumKeys + 1)

MinInt == -(2^(IntBits - 1))
MaxInt == 2^(IntBits - 1) - 1
MachineInts == MinInt..MaxInt

\* Go's int arithmetic wraps around silently (two's complement).
Wrap(x) == ((x - MinInt) % (2^IntBits)) + MinInt

VARIABLES
    lru,        \* the LRU struct: items, lookup, heap, capacity, count
    requested,  \* the argument NewLRU was called with
    panicked,   \* a nil dereference has unwound the calling goroutine
    last,       \* the last call: operation, key, and what it returned
    recency,    \* the cached keys in the order Get/Set last touched them, newest first
    removed,    \* keys removed by Remove while present, and neither Set nor purged since
    fresh,      \* the Sets made so far, while nothing but Sets of distinct keys was called
    mu,         \* lru.mu: the goroutine that holds the lock, or Nil
    goroutine,  \* each goroutine's position in the public method it is calling
    linear      \* the same calls run one after another, in the order they completed

vars == <<lru, requested, panicked, last, recency, removed, fresh, mu, goroutine, linear>>

\* What the goroutines and the lock add to the state.
sync == <<mu, goroutine, linear>>

\* ------------------------------------------------------- heap objects
\* A list element together with the *LRUItem its Value field holds.
\* list: e.list == lru.items;  typ: the dynamic type of e.Value.
FreeElem == [Key |-> Nil, Value |-> Nil, Count |-> 0, list |-> FALSE, typ |-> "none"]

EmptyLookup == [k \in {} |-> 0]

Range(f) == {f[x] : x \in DOMAIN f}
SeqRange(s) == {s[i] : i \in 1..Len(s)}
Without(s, e) == SelectSeq(s, LAMBDA x : x # e)

\* Elements the engine can still reach; everything else is garbage.
Reachable(s) == SeqRange(s.items) \cup Range(s.lookup)

collect(s) ==
    [s EXCEPT !.heap = [e \in ElemIds |->
                          IF e \in Reachable(s) THEN s.heap[e] ELSE FreeElem]]

\* ----------------------------------------------------- container/list
Back(s) == IF Len(s.items) = 0 THEN Nil ELSE s.items[Len(s.items)]
Front(s) == IF Len(s.items) = 0 THEN Nil ELSE s.items[1]

\* list.Remove(e): unlinks e only if e.list == l, and clears e.list.
ListRemove(s, e) ==
    IF s.heap[e].list
    THEN [s EXCEPT !.items = Without(@, e), !.heap[e].list = FALSE]
    ELSE s

\* list.MoveToFront(e): nothing if e.list != l or e is the front already.
MoveToFront(s, e) ==
    IF ~s.heap[e].list \/ Front(s) = e
    THEN s
    ELSE [s EXCEPT !.items = <<e>> \o Without(@, e)]

\* list.PushFront(item): a new element, linked in at the front.  The
\* allocator may hand out any address that is not in use; the program
\* never looks at addresses, so one policy stands for all: the address
\* numbered like the key when it is free, else the lowest free one.
NewElem(s, key) ==
    LET free == ElemIds \ Reachable(s)
    IN IF key \in free THEN key
       ELSE CHOOSE e \in free : \A f \in free : e <= f

PushFront(s, e, item) ==
    [s EXCEPT !.heap[e] = [Key |-> item.Key, Value |-> item.Value,
                           Count |-> item.Count, list |-> TRUE, typ |-> "LRUItem"],
              !.items = <<e>> \o @]

\* ------------------------------------------------------------- NewLRU
\* NewLRU without the validity check on the stored capacity.
NewLRUUnchecked(capacity) ==
    [items    |-> <<>>,
     lookup   |-> EmptyLookup,
     heap     |-> [e \in ElemIds |-> FreeElem],
     capacity |-> Wrap(capacity - 1),
     count    |-> 0]

NewLRU(capacity) ==
    LET c == Wrap(capacity - 1)
    IN [items    |-> <<>>,
        lookup   |-> EmptyLookup,
        heap     |-> [e \in ElemIds |-> FreeElem],
        capacity |-> IF c <= 0 THEN defaultCAPACITY ELSE c,
        count    |-> 0]

\* ------------------------------------------------- popBack and evict
\* popBack dereferences items.Back(): on an empty list that is a nil
\* dereference, which evictPanics reports.
evictPanics(s) == Len(s.items) = 0

\* popBack taken for popFront: the head is removed.
popBackFront(s) == [lru |-> ListRemove(s, Front(s)), elem |-> Front(s)]

\* The list without its tail element, and that element.
popBack(s) == [lru |-> ListRemove(s, Back(s)), elem |-> Back(s)]

\* Evicting down below the capacity: two tail elements go instead of one.
evictTwice(s) ==
    LET drop(u) ==
            LET p == popBack(u)
                e == p.elem
                k == p.lru.heap[e].Key
            IN [p.lru EXCEPT !.lookup = [x \in DOMAIN p.lru.lookup \ {k} |-> p.lru.lookup[x]],
                             !.heap[e].Key = Nil,
                             !.heap[e].Value = Nil]
        once == drop(s)
    IN IF Len(once.items) = 0 THEN once ELSE drop(once)

\* Evicting without delete(lru.lookup, item.Key): the key keeps a handle
\* to the emptied item.
evictKeepsLookup(s) ==
    LET p == popBack(s)
        e == p.elem
    IN [p.lru EXCEPT !.heap[e].Key = Nil,
                     !.heap[e].Value = Nil]

evict(s) ==
    LET p == popBack(s)
        e == p.elem
        k == p.lru.heap[e].Key
    IN [p.lru EXCEPT !.lookup = [x \in DOMAIN p.lru.lookup \ {k} |-> p.lru.lookup[x]],
                     !.heap[e].Key = Nil,
                     !.heap[e].Value = Nil]

\* ---------------------------------------------------------------- set
\* The eviction test off by one, either way.
setEvictsLate(cnt, capacity) == cnt > capacity + 1
setEvictsEarly(cnt, capacity) == cnt >= capacity

\* The test set makes before it evicts.
setEvicts(cnt, capacity) == cnt > capacity

set(s, key, value) ==
    LET s1  == [s EXCEPT !.count = @ + 1]
        cnt == Len(s1.items)
        ev  == setEvicts(cnt, s1.capacity)
    IN IF key \notin DOMAIN s1.lookup
       THEN LET s2 == IF ev /\ ~evictPanics(s1) THEN evict(s1) ELSE s1
                e  == NewElem(s2, key)
                s3 == PushFront(s2, e, [Key |-> key, Value |-> value, Count |-> s2.count])
            IN IF ev /\ evictPanics(s1)
               THEN [lru |-> s1, isNew |-> FALSE, err |-> NoError, panic |-> TRUE]
               ELSE [lru   |-> [s3 EXCEPT !.lookup = [x \in DOMAIN s3.lookup \cup {key} |->
                                                        IF x = key THEN e ELSE s3.lookup[x]]],
                     isNew |-> TRUE, err |-> NoError, panic |-> FALSE]
       ELSE LET elem == s1.lookup[key]
            IN IF s1.heap[elem].typ # "LRUItem"
               THEN [lru |-> s1, isNew |-> FALSE, err |-> ELRUINVALTYPE, panic |-> FALSE]
               ELSE IF ev /\ evictPanics(s1)
               THEN [lru |-> s1, isNew |-> FALSE, err |-> NoError, panic |-> TRUE]
               ELSE LET s2 == IF ev THEN evict(s1) ELSE s1
                        s3 == [s2 EXCEPT !.heap[elem].Count = @ + 1,
                                         !.heap[elem].Value = value]
                    IN [lru |-> MoveToFront(s3, elem),
                        isNew |-> FALSE, err |-> NoError, panic |-> FALSE]

\* ---------------------------------------------------------------- get
get(s, key) ==
    LET s1 == [s EXCEPT !.count = @ + 1]
    IN IF key \notin DOMAIN s1.lookup
       THEN [lru |-> s1, item |-> Nil, err |-> NoError]
       ELSE LET elem == s1.lookup[key]
                s2   == [s1 EXCEPT !.heap[elem].Count = @ + 1]
            IN [lru |-> MoveToFront(s2, elem), item |-> elem, err |-> NoError]

\* --------------------------------------------------- readEntery, read
readEntery(s, key) == IF key \notin DOMAIN s.lookup THEN Nil ELSE s.lookup[key]

read(s, key) == IF key \notin DOMAIN s.lookup THEN Nil ELSE s.lookup[key]

\* -------------------------------------------------------------- reset
\* reset that forgets to restart the counter.
resetKeepingCount(s) == [s EXCEPT !.items = <<>>, !.lookup = EmptyLookup]

reset(s) == [s EXCEPT !.items = <<>>, !.count = 0, !.lookup = EmptyLookup]

\* ------------------------------------------------------------- remove
remove(s, key) ==
    LET item == readEntery(s, key)
    IN IF item = Nil
       THEN [lru |-> s, ok |-> FALSE]
       ELSE [lru |-> ListRemove(s, item), ok |-> TRUE]

\* ------------------------------------------------- what a caller sees
\* Keys of the entries in the Ordered Index, head first.
CachedSeq(s) == [i \in 1..Len(s.items) |-> s.heap[s.items[i]].Key]
Cached(s) == SeqRange(CachedSeq(s))
LenOf(s) == Len(s.items)
ValueOf(s, item) == IF item = Nil THEN Nil ELSE s.heap[item].Value

\* The public methods, lock to unlock: the state they leave and what
\* they return.
DoSet(s, key, value) ==
    LET r == set(s, key, value)
    IN [lru |-> collect(r.lru), isNew |-> r.isNew, err |-> r.err, panic |-> r.panic]

DoGet(s, key) ==
    LET r == get(s, key)
    IN [lru   |-> collect(r.lru),
        value |-> IF r.err = NoError /\ r.item # Nil THEN ValueOf(r.lru, r.item) ELSE Nil,
        err   |-> r.err]

\* Read going through get, as Get does.
DoReadTouching(s, key) ==
    LET r == get(s, key)
    IN [lru |-> collect(r.lru), value |-> ValueOf(r.lru, r.item)]

DoRead(s, key) == [lru |-> s, value |-> ValueOf(s, read(s, key))]

DoRemove(s, key) ==
    LET r == remove(s, key)
    IN [lru |-> collect(r.lru), ok |-> r.ok]

DoPurge(s) == collect(reset(s))

DoLen(s) == Len(s.items)

\* ------------------------------------------------------ observations
Touch(seq, k) == <<k>> \o Without(seq, k)
Only(seq, S) == SelectSeq(seq, LAMBDA x : x \in S)

\* The record of a call: what it returned, and gone, the keys whose
\* entries left the Ordered Index while it ran.
Call(op, key, ret, isNew, err, ok, after) ==
    [op |-> op, key |-> key, ret |-> ret, isNew |-> isNew, err |-> err, ok |-> ok,
     gone |-> Cached(lru) \ Cached(after)]

\* ------------------------------------------- goroutines and lru.mu
\* Two goroutines: one can hold the lock while the other waits for it.
Threads == {1, 2}

\* The calls a goroutine can make: two keys fill an engine of requested
\* capacity 2, so that Set runs evict while it holds the lock; one value,
\* as no call looks at the value it stores.
MuKeys == {1, 2}
MuValues == {1}
Calls ==
    [op : {"Set"}, key : MuKeys, value : MuValues]
        \cup [op : {"Get", "Read", "Remove"}, key : MuKeys, value : {Nil}]
        \cup [op : {"Purge", "Len"}, key : {Nil}, value : {Nil}]

NoCall == [op |-> "none", key |-> Nil, value |-> Nil]
NoRet  == [value |-> Nil, isNew |-> FALSE, err |-> NoError, ok |-> FALSE]

\* A goroutine that is in no public method.  seen is the struct as the
\* private routine read it, ret what the routine returned.
IdleG == [pc |-> "idle", call |-> NoCall, seen |-> Nil, ret |-> NoRet]

InitSync ==
    /\ mu = Nil
    /\ goroutine = [t \in Threads |-> IdleG]
    /\ linear = [lru |-> lru, ret |-> NoRet]

\* mu.RLock() in the place of mu.Lock(): other holders do not keep it out.
mutexLockShared(m) == TRUE

\* mu.Lock() returns only when no goroutine holds the lock.
mutexLock(m) == m = Nil

\* The method returning without mu.Unlock().
mutexUnlockMissing(m) == m

\* mu.Unlock(): the lock is free.
mutexUnlock(m) == Nil

\* The private routine a public method runs between Lock and Unlock, on
\* the struct s: the struct it leaves and what the method returns.
Run(s, c) ==
    CASE c.op = "Set" ->
           LET r == DoSet(s, c.key, c.value)
           IN [lru |-> r.lru, panic |-> r.panic,
               ret |-> [NoRet EXCEPT !.isNew = r.isNew, !.err = r.err]]
      [] c.op = "Get" ->
           LET r == DoGet(s, c.key)
           IN [lru |-> r.lru, panic |-> FALSE,
               ret |-> [NoRet EXCEPT !.value = r.value, !.err = r.err]]
      [] c.op = "Read" ->
           LET r == DoRead(s, c.key)
           IN [lru |-> r.lru, panic |-> FALSE, ret |-> [NoRet EXCEPT !.value = r.value]]
      [] c.op = "Remove" ->
           LET r == DoRemove(s, c.key)
           IN [lru |-> r.lru, panic |-> FALSE, ret |-> [NoRet EXCEPT !.ok = r.ok]]
      [] c.op = "Purge" ->
           [lru |-> DoPurge(s), panic |-> FALSE, ret |-> NoRet]
      [] c.op = "Len" ->
           [lru |-> s, panic |-> FALSE, ret |-> [NoRet EXCEPT !.value = DoLen(s)]]

\* ------------------------------------------------------------ actions
Init ==
    /\ requested \in 1..NumKeys
    /\ lru = NewLRU(requested)
    /\ panicked = FALSE
    /\ last = Call("NewLRU", Nil, Nil, FALSE, NoError, FALSE, lru)
    /\ recency = <<>>
    /\ removed = {}
    /\ fresh = [ok |-> TRUE, sets |-> <<>>]
    /\ InitSync

Set(key, value) ==
    /\ ~panicked
    /\ lru.count < MaxCount
    /\ LET r == DoSet(lru, key, value)
       IN /\ lru' = r.lru
          /\ panicked' = r.panic
          /\ last' = Call("Set", key, Nil, r.isNew, r.err, FALSE, r.lru)
          /\ recency' = Only(Touch(recency, key), Cached(r.lru))
    /\ removed' = removed \ {key}
    /\ fresh' = IF fresh.ok /\ \A i \in 1..Len(fresh.sets) : fresh.sets[i].key # key
                THEN [fresh EXCEPT !.sets = Append(@, [key |-> key, value |-> value])]
                ELSE NoFresh
    /\ UNCHANGED requested
    /\ UNCHANGED sync

Get(key) ==
    /\ ~panicked
    /\ lru.count < MaxCount
    /\ LET r == DoGet(lru, key)
       IN /\ lru' = r.lru
          /\ last' = Call("Get", key, r.value, FALSE, r.err, FALSE, r.lru)
          /\ recency' = Only(Touch(recency, key), Cached(r.lru))
    /\ fresh' = NoFresh
    /\ UNCHANGED <<requested, panicked, removed>>
    /\ UNCHANGED sync

Read(key) ==
    /\ ~panicked
    /\ lru.count < MaxCount
    /\ LET r == DoRead(lru, key)
       IN /\ lru' = r.lru
          /\ last' = Call("Read", key, r.value, FALSE, NoError, FALSE, r.lru)
    /\ fresh' = NoFresh
    /\ UNCHANGED <<requested, panicked, recency, removed>>
    /\ UNCHANGED sync

Remove(key) ==
    /\ ~panicked
    /\ lru.count < MaxCount
    /\ LET r == DoRemove(lru, key)
       IN /\ lru' = r.lru
          /\ last' = Call("Remove", key, Nil, FALSE, NoError, r.ok, r.lru)
          /\ recency' = Only(recency, Cached(r.lru))
    /\ removed' = IF key \in Cached(lru) THEN removed \cup {key} ELSE removed
    /\ fresh' = NoFresh
    /\ UNCHANGED <<requested, panicked>>
    /\ UNCHANGED sync

Purge ==
    /\ ~panicked
    /\ lru' = DoPurge(lru)
    /\ last' = Call("Purge", Nil, Nil, FALSE, NoError, FALSE, DoPurge(lru))
    /\ recency' = <<>>
    /\ removed' = {}
    /\ fresh' = NoFresh
    /\ UNCHANGED <<requested, panicked>>
    /\ UNCHANGED sync

LRULen ==
    /\ ~panicked
    /\ lru.count < MaxCount
    /\ last' = Call("Len", Nil, DoLen(lru), FALSE, NoError, FALSE, lru)
    /\ fresh' = NoFresh
    /\ UNCHANGED <<lru, requested, panicked, recency, removed>>
    /\ UNCHANGED sync

Next ==
    \/ \E key \in Keys, value \in Values : Set(key, value)
    \/ \E key \in Keys : Get(key)
    \/ \E key \in Keys : Read(key)
    \/ \E key \in Keys : Remove(key)
    \/ Purge
    \/ LRULen

Spec == Init /\ [][Next]_vars

\* ----------------------------------------------- construction alone
\* NewLRU over every machine integer: an engine is built, and built again
\* with another argument.
InitNew ==
    /\ requested = 0
    /\ lru = NewLRU(requested)
    /\ panicked = FALSE
    /\ last = Call("NewLRU", Nil, Nil, FALSE, NoError, FALSE, lru)
    /\ recency = <<>>
    /\ removed = {}
    /\ fresh = [ok |-> TRUE, sets |-> <<>>]
    /\ InitSync

Construct(capacity) ==
    /\ requested' = capacity
    /\ lru' = NewLRU(capacity)
    /\ UNCHANGED <<panicked, last, recency, removed, fresh>>
    /\ UNCHANGED sync

NextNew == \E capacity \in MachineInts : Construct(capacity)

SpecNew == InitNew /\ [][NextNew]_vars

\* ------------------------------------- goroutines calling concurrently
\* Every public method is  mu.Lock(); private routine; mu.Unlock(); return.
\* A goroutine's steps are: enter a method (Invoke), get the lock (Lock),
\* read the struct (Enter), write it and have the result (Leave), free the
\* lock and return (Unlock).  The private routine is not atomic: what it
\* read at Enter is what it computes from at Leave.
InitMu ==
    /\ requested = Cardinality(MuKeys)
    /\ lru = NewLRU(requested)
    /\ panicked = FALSE
    /\ last = Call("NewLRU", Nil, Nil, FALSE, NoError, FALSE, lru)
    /\ recency = <<>>
    /\ removed = {}
    /\ fresh = NoFresh
    /\ InitSync

\* Goroutine t calls a public method and comes to its mu.Lock().
Invoke(t) ==
    /\ goroutine[t].pc = "idle"
    /\ goroutine' = [goroutine EXCEPT ![t].pc = "Lock"]
    /\ UNCHANGED <<lru, requested, panicked, last, recency, removed, fresh, mu, linear>>

\* mu.Lock() returns in goroutine t, whose call is c.  As in the
\* sequential actions, once lru.count has reached MaxCount only Purge
\* goes on.
Lock(t, c) ==
    /\ goroutine[t].pc = "Lock"
    /\ mutexLock(mu)
    /\ lru.count < MaxCount \/ c.op = "Purge"
    /\ mu' = t
    /\ goroutine' = [goroutine EXCEPT ![t].pc = "Enter", ![t].call = c]
    /\ UNCHANGED <<lru, requested, panicked, last, recency, removed, fresh, linear>>

\* The private routine begins: it reads the struct.
Enter(t) ==
    /\ goroutine[t].pc = "Enter"
    /\ goroutine' = [goroutine EXCEPT ![t].pc = "Leave", ![t].seen = lru]
    /\ UNCHANGED <<lru, requested, panicked, last, recency, removed, fresh, mu, linear>>

\* The private routine ends: its writes are in the struct; if it faulted
\* in popBack, the goroutine unwinds and mu.Unlock() is never reached.
Leave(t) ==
    /\ goroutine[t].pc = "Leave"
    /\ LET r == Run(goroutine[t].seen, goroutine[t].call)
       IN /\ lru' = r.lru
          /\ panicked' = (panicked \/ r.panic)
          /\ goroutine' = [goroutine EXCEPT
                              ![t].pc = IF r.panic THEN "panic" ELSE "Unlock",
                              ![t].call = NoCall,
                              ![t].seen = Nil,
                              ![t].ret = r.ret]
    /\ LET q == Run(linear.lru, goroutine[t].call)
       IN linear' = [lru |-> q.lru, ret |-> q.ret]
    /\ UNCHANGED <<requested, last, recency, removed, fresh, mu>>

\* mu.Unlock() and the return to the caller.
Unlock(t) ==
    /\ goroutine[t].pc = "Unlock"
    /\ mu' = mutexUnlock(mu)
    /\ goroutine' = [goroutine EXCEPT ![t] = IdleG]
    /\ linear' = [linear EXCEPT !.ret = NoRet]
    /\ UNCHANGED <<lru, requested, panicked, last, recency, removed, fresh>>

NextMu ==
    \/ \E t \in Threads : Invoke(t)
    \/ \E t \in Threads, c \in Calls : Lock(t, c)
    \/ \E t \in Threads : Enter(t)
    \/ \E t \in Threads : Leave(t)
    \/ \E t \in Threads : Unlock(t)

SpecMu == InitMu /\ [][NextMu]_vars

\* The same under a fair scheduler and a starvation-free mutex: a
\* goroutine that can run does, and one waiting in mu.Lock() is not
\* passed over for ever.
FairMu ==
    \A t \in Threads :
       /\ SF_vars(\E c \in Calls : Lock(t, c))
       /\ WF_vars(Enter(t) \/ Leave(t) \/ Unlock(t))

SpecMuFair == InitMu /\ [][NextMu]_vars /\ FairMu

\* ======================================================== properties
\* The step is a call of op on key k.
IsCall(op, k) == last'.op = op /\ last'.key = k

HasEntry(s, key) == key \in Cached(s)
LastOf(seq) == IF Len(seq) = 0 THEN Nil ELSE seq[Len(seq)]

\* C1: in every reachable state the Ordered Index and the Lookup Table
\* are in bijection: as many list elements as keys, every key refers to
\* an element that is in the list, and every list element is referred to
\* by exactly one key.
C1_Bijection ==
    /\ Len(lru.items) = Cardinality(DOMAIN lru.lookup)
    /\ \A k \in DOMAIN lru.lookup : lru.lookup[k] \in SeqRange(lru.items)
    /\ \A e \in SeqRange(lru.items) :
          Cardinality({k \in DOMAIN lru.lookup : lru.lookup[k] = e}) = 1

\* C2: after Remove(k) on a present key, and until the next Set(k, _),
\* Read(k) and Get(k) return the empty value.
C2_RemovedIsEmpty ==
    (last.op \in {"Read", "Get"} /\ last.key \in removed) => last.ret = Nil

\* C3: Remove(k) returns true exactly when k has an entry, and then Len()
\* goes down by one; on a key with no entry it returns false and Len()
\* stays as it was.
C3_RemoveReportsRemoval ==
    [][\A k \in Keys :
          (IsCall("Remove", k) /\ Remove(k)) =>
             /\ last'.ok <=> HasEntry(lru, k)
             /\ HasEntry(lru, k) => LenOf(lru') = LenOf(lru) - 1
             /\ ~HasEntry(lru, k) => LenOf(lru') = LenOf(lru)]_vars

\* The key touched least recently among the cached ones.
LeastRecent == LastOf(recency)

\* Set(k, v) has put k in, thrown out the least recently touched key and
\* nothing else, and left Len() at the requested capacity.
EvictsLeastRecent(k) ==
    /\ Cached(lru) \ Cached(lru') = {LeastRecent}
    /\ Cached(lru') = (Cached(lru) \ {LeastRecent}) \cup {k}
    /\ LenOf(lru') = requested

C5_LenWithinCapacity == LenOf(lru) <= lru.capacity

\* C5, amended: a Set evicts exactly when it finds the entry count already
\* above the effective capacity, so Len() never exceeds the effective
\* capacity plus one.
C5_LenWithinCapacityPlusOne ==
    /\ LenOf(lru) <= lru.capacity + 1
    /\ last.op = "Set" =>
          (last.gone # {} <=>
              LenOf(lru) + Cardinality(last.gone) - (IF last.isNew THEN 1 ELSE 0)
                 > lru.capacity)

\* A Set has evicted and the engine holds one entry more than its capacity.
C5_Witness ==
    /\ last.op = "Set" /\ last.gone # {}
    /\ LenOf(lru) = lru.capacity + 1

\* C6: on a fresh engine of capacity N, N Sets of N distinct keys each
\* return isNew with no error and evict nothing, Len() is the number of
\* Sets made, and every key set is retrievable with its value.
C6_FillsToCapacity ==
    (fresh.ok /\ Len(fresh.sets) >= 1 /\ Len(fresh.sets) <= requested) =>
        /\ last.op = "Set" /\ last.isNew /\ last.err = NoError /\ last.gone = {}
        /\ ~panicked
        /\ LenOf(lru) = Len(fresh.sets)
        /\ \A i \in 1..Len(fresh.sets) :
              /\ DoRead(lru, fresh.sets[i].key).value = fresh.sets[i].value
              /\ DoGet(lru, fresh.sets[i].key).value = fresh.sets[i].value
              /\ DoGet(lru, fresh.sets[i].key).err = NoError

\* A fresh engine of capacity N >= 2 has taken N Sets of distinct keys.
C6_Witness == fresh.ok /\ requested >= 2 /\ Len(fresh.sets) = requested

\* C7: for every machine integer c <= 0 the effective capacity is the
\* default 16; the effective capacity is positive for every argument; a
\* requested 1 gives 16 too, and a requested c >= 2 gives c - 1.
C7_EffectiveCapacity ==
    /\ requested <= 0 => lru.capacity = defaultCAPACITY
    /\ lru.capacity > 0
    /\ requested = 1 => lru.capacity = defaultCAPACITY
    /\ requested >= 2 => lru.capacity = requested - 1

\* C8: Get or Set on an existing key k promotes k to most recently used,
\* and an eviction never takes a key while a key touched less recently,
\* the touch of the evicting call counted, remains.
C8_TouchPromotes ==
    [][\A k \in Keys :
          /\ (/\ IsCall("Get", k) \/ IsCall("Set", k)
              /\ HasEntry(lru, k)
              /\ Get(k) \/ \E v \in Values : Set(k, v)) =>
                (HasEntry(lru', k) /\ CachedSeq(lru')[1] = k)
          /\ (IsCall("Set", k) /\ \E v \in Values : Set(k, v)) =>
                \A e \in Cached(lru) \ Cached(lru') :
                    e = LastOf(Only(Touch(recency, k), Cached(lru)))]_vars

\* C9: Read(k) leaves the Ordered Index, the Lookup Table, the touch
\* counter and every entry's access counter and value as they were, for a
\* present and for an absent key; so does the order of eviction.
C9_ReadIsPure ==
    [][\A k \in Keys :
          (IsCall("Read", k) /\ Read(k)) => (lru' = lru /\ recency' = recency)]_vars

\* Read has returned the value of a cached key.
C9_Witness == last.op = "Read" /\ last.ret # Nil /\ LenOf(lru) >= 1

\* C10: Purge leaves Len() = 0, an empty Lookup Table and a touch counter
\* of 0, keeps the capacity, and leaves the engine in the very state of a
\* newly constructed engine of the same requested capacity.
C10_PurgeIsFresh ==
    last.op = "Purge" =>
        /\ LenOf(lru) = 0
        /\ DOMAIN lru.lookup = {}
        /\ lru.count = 0
        /\ lru = NewLRU(requested)

\* Purge has emptied an engine that held entries.
C10_Witness == last.op = "Purge" /\ last.gone # {}

\* C11: Get(k) on a key with no entry returns the empty value and no
\* error, adds one to the touch counter, and leaves the Ordered Index, the
\* Lookup Table and Len() as they were; it evicts nothing.
C11_GetMiss ==
    [][\A k \in Keys :
          (IsCall("Get", k) /\ ~HasEntry(lru, k) /\ Get(k)) =>
             /\ last'.ret = Nil /\ last'.err = NoError
             /\ lru'.count = lru.count + 1
             /\ lru'.items = lru.items
             /\ lru'.lookup = lru.lookup
             /\ last'.gone = {}]_vars

\* C12: Set(k, v) returns isNew = true exactly when k had no entry just
\* before the call, and an entry is then created for it; it returns false
\* exactly when k had a live entry, which is then updated in place.
C12_IsNewIffAbsent ==
    [][\A k \in Keys :
          (IsCall("Set", k) /\ \E v \in Values : Set(k, v)) =>
             /\ last'.isNew <=> ~HasEntry(lru, k)
             /\ HasEntry(lru', k)]_vars

\* C13: right after a Set(k, v) that returns no error, k has an entry in
\* the Ordered Index (Len counts it) and Read(k) returns v.
C13_SetStores ==
    [][\A k \in Keys, v \in Values :
          (IsCall("Set", k) /\ Set(k, v) /\ last'.err = NoError) =>
             /\ HasEntry(lru', k)
             /\ DoRead(lru', k).value = v]_vars

\* C16: a Set removes at most one entry, and only the one that was at the
\* tail when the call began; when the entry count does not exceed the
\* capacity it removes none. Get, Read and Len remove no entry, and Remove
\* takes out no entry but that of its own key.
C16_EvictsOnlyTail ==
    [][/\ \A k \in Keys :
             /\ (IsCall("Set", k) /\ \E v \in Values : Set(k, v)) =>
                   /\ Cardinality(last'.gone) <= 1
                   /\ last'.gone \subseteq {LastOf(CachedSeq(lru))}
                   /\ LenOf(lru) <= lru.capacity => last'.gone = {}
                   /\ LenOf(lru') >= LenOf(lru) - 1
             /\ (IsCall("Get", k) /\ Get(k)) =>
                   last'.gone = {} /\ LenOf(lru') = LenOf(lru)
             /\ (IsCall("Read", k) /\ Read(k)) =>
                   last'.gone = {} /\ LenOf(lru') = LenOf(lru)
             /\ (IsCall("Remove", k) /\ Remove(k)) =>
                   last'.gone \subseteq {k}
       /\ (last'.op = "Len" /\ LRULen) =>
             last'.gone = {} /\ LenOf(lru') = LenOf(lru)]_vars

\* A Set has just evicted exactly one entry.
C16_Witness == last.op = "Set" /\ Cardinality(last.gone) = 1 /\ LenOf(lru) >= 1

\* C17: right after any Set(k, v), and after any Get(k) that returned a
\* non-empty value, the head of the Ordered Index is the entry of k.
C17_TouchedIsHead ==
    (last.op = "Set" \/ (last.op = "Get" /\ last.ret # Nil)) =>
       /\ LenOf(lru) >= 1
       /\ CachedSeq(lru)[1] = last.key

\* C18: no Set and no Get returns an error, and every handle in the
\* Lookup Table resolves to an item of the entry type that carries the
\* key it is filed under.
C18_NoInvalidType ==
    /\ last.err = NoError
    /\ \A k \in DOMAIN lru.lookup :
          /\ lru.heap[lru.lookup[k]].typ = "LRUItem"
          /\ lru.heap[lru.lookup[k]].Key = k

\* A Set on the update branch has resolved the handle of a live entry.
C18_Witness ==
    /\ last.op = "Set" /\ ~last.isNew /\ last.err = NoError
    /\ last.key \in DOMAIN lru.lookup /\ last.key \in Cached(lru)

\* C19: a Set on a key that already has an entry changes neither the set
\* of cached keys nor Len(), a full cache included.
C19_UpdateKeepsKeys ==
    [][\A k \in Keys :
          (IsCall("Set", k) /\ HasEntry(lru, k) /\ \E v \in Values : Set(k, v)) =>
             /\ Cached(lru') = Cached(lru)
             /\ LenOf(lru') = LenOf(lru)]_vars

\* C20: eviction never meets an empty list: whenever the eviction test
\* of set succeeds the Ordered Index holds at least two entries, and no
\* call has faulted in popBack.
C20_EvictNeverEmpty ==
    /\ ~panicked
    /\ setEvicts(Len(lru.items), lru.capacity) =>
          Len(lru.items) >= 2 /\ ~evictPanics(lru)

\* A Set has run eviction and returned.
C20_Witness ==
    /\ last.op = "Set" /\ last.gone # {} /\ ~panicked
    /\ Len(lru.items) <= lru.capacity

\* The goroutines between mu.Lock() and mu.Unlock().
InCritical == {t \in Threads : goroutine[t].pc \in {"Enter", "Leave", "Unlock"}}

\* C14: with goroutines calling concurrently, at most one is between
\* Lock and Unlock, and it is the holder of the lock; the struct a call
\* leaves and the result it returns are those of the calls run one after
\* another in the order they completed.
C14_Linearizable ==
    /\ Cardinality(InCritical) <= 1
    /\ \A t \in InCritical : mu = t
    /\ mu = Nil => lru = linear.lru
    /\ \A t \in Threads :
          goroutine[t].pc = "Unlock" =>
             /\ lru = linear.lru
             /\ goroutine[t].ret = linear.ret

\* A call has completed while another goroutine waits for the lock, and
\* a call had completed before it.
C14_Witness ==
    \E t, u \in Threads :
       /\ t # u
       /\ goroutine[t].pc = "Unlock" /\ goroutine[t].ret.isNew
       /\ goroutine[u].pc = "Lock"
       /\ lru.count >= 2

\* C15: under fair scheduling every goroutine that has entered a public
\* method gets the lock, completes and returns, and the lock is then not
\* left held by it; in no reachable state is the lock held by a goroutine
\* that is not between mu.Lock() and mu.Unlock().
C15_NoBlocking ==
    /\ [](mu # Nil => mu \in InCritical)
    /\ \A t \in Threads :
          (goroutine[t].pc # "idle") ~> (goroutine[t].pc = "idle" /\ mu # t)

\* A goroutine waits in mu.Lock() while another is inside its routine.
C15_Witness ==
    \E t, u \in Threads :
       /\ t # u
       /\ mu = t /\ goroutine[t].pc = "Leave"
       /\ goroutine[u].pc = "Lock"

====
